---- MODULE Spec2Model ----
(***************************************************************************)
(* Model of src/data/dataloader.py: the PromptLoader and the five dataset  *)
(* adapters (RottenTomatoes, Gigaword, Dailymail, Wikicat, TweetQA).       *)
(*                                                                         *)
(* A Python str is modelled as a sequence of tokens.  Every literal of the *)
(* source is one token (its text is the TLA+ string), so "+" is \o and the *)
(* separators that str.split looks for are single tokens.  No separator of *)
(* the source overlaps itself (each starts with its only newline), so an   *)
(* occurrence of a separator in a Python string is always a whole token.   *)
(***************************************************************************)
EXTENDS Integers, Sequences, FiniteSets, TLC

VARIABLES pc, incontext_set, eval_set, constructed, pcg, flat, turns, refs, args, first,
          heap, source, tret, sret

\* the loader and what its methods returned
lvars == <<pc, incontext_set, eval_set, constructed, pcg, flat, turns, refs, args, first>>

\* the records the module-level transforms work on and what they returned
tvars == <<heap, source, tret, sret>>

vars == <<lvars, tvars>>

(***************************************************************************)
(* Bounds                                                                  *)
(***************************************************************************)
MaxTrain == 2

MaxEval == 2

MaxK == 3

\* num_examples ranges past the training pool, to reach k > |train|
KRange == 0..MaxK

(***************************************************************************)
(* Python values                                                           *)
(***************************************************************************)
\* an attribute that was never assigned (reading it raises AttributeError)
NoAttr == [cls |-> "<unset>"]

\* a method that has not been called yet
NoCall == [called |-> FALSE]

Return(op, k, v) == [called |-> TRUE, op |-> op, k |-> k, exc |-> "none", value |-> v.value, draws |-> v.draws]

Raise(op, k, e) == [called |-> TRUE, op |-> op, k |-> k, exc |-> e]

\* sep.join(parts) on a list of strings
RECURSIVE Join(_, _)
Join(sep, parts) ==
    IF parts = <<>> THEN <<>>
    ELSE IF Len(parts) = 1 THEN parts[1]
    ELSE parts[1] \o <<sep>> \o Join(sep, Tail(parts))

\* position of the first occurrence of sep in s, 0 if there is none
Find(s, sep) ==
    IF \E i \in 1..Len(s) : s[i] = sep
    THEN CHOOSE i \in 1..Len(s) : s[i] = sep /\ \A j \in 1..(i - 1) : s[j] # sep
    ELSE 0

\* s.split(sep): cut at every occurrence of sep, left to right
RECURSIVE Split(_, _)
Split(s, sep) ==
    LET i == Find(s, sep)
    IN  IF i = 0 THEN <<s>>
        ELSE <<SubSeq(s, 1, i - 1)>> \o Split(SubSeq(s, i + 1, Len(s)), sep)

\* Dataset.map(fn): the columns fn returns (cols[i] for row i) are added to
\* every row
Map(table, cols) == [i \in 1..Len(table) |-> cols[i] @@ table[i]]

\* Dataset.select(idxs)[column], idxs being 0-based
Select(table, idxs, column) == [j \in 1..Len(idxs) |-> table[idxs[j] + 1][column]]

\* Dataset[column]
Column(table, column) == [i \in 1..Len(table) |-> table[i][column]]

(***************************************************************************)
(* numpy: np.random.default_rng(seed).choice(n, k, replace=False)          *)
(* The generator is a deterministic function of the seed.  Its stream is   *)
(* not part of the repository: pcg[seed] is any order of the indices of    *)
(* the training pool, fixed once the loader exists, and a draw is the      *)
(* first k of those below n.  A draw of more than n raises ValueError.     *)
(***************************************************************************)
Below(p, n) == SelectSeq(p, LAMBDA v : v < n)

\* choice drawing at most n instead of raising
choice_clamped(n, k, seed) ==
    [exc |-> "none", idxs |-> SubSeq(Below(pcg[seed], n), 1, IF k > n THEN n ELSE k)]

choice(n, k, seed) ==
    IF k > n THEN [exc |-> "ValueError"]
    ELSE [exc |-> "none", idxs |-> SubSeq(Below(pcg[seed], n), 1, k)]

(***************************************************************************)
(* The sampled in-context examples, as every adapter returns them: the     *)
(* value, and the draw the sampler was asked for (none when k = 0).        *)
(***************************************************************************)
Out(v, d) == [exc |-> "none", value |-> v, draws |-> d]

Draw(seed, n, k, idxs) == [seed |-> seed, n |-> n, k |-> k, idxs |-> idxs]

User(content) == [role |-> "user", content |-> content]

Assistant(content) == [role |-> "assistant", content |-> content]

(***************************************************************************)
(* RottenTomatoesDataLoader                                                *)
(***************************************************************************)
RT_PROMPT_PREFIX == "Please read the following pairs of movie reviews and sentiment:\n"

RT_I1 == "Please perform a Sentiment Classification task. "

RT_I2 == "Given the following movie review, assign a sentiment label from ['negative', 'positive']. "

RT_I3 == "Return only the sentiment label without any other text.\n"

RT_SEP == "\nsentiment: "

RT_label_to_sentiment(example) ==
    [sentiment |-> IF example.label = 1 THEN <<"positive">> ELSE <<"negative">>]

RT_prompt(example) ==
    [prompt |-> <<"review: ">> \o example.text \o <<RT_SEP>> \o example.sentiment]

RT_eval_prompt(example) ==
    [eval_prompt |-> <<RT_I1, RT_I2, RT_I3>> \o example.text]

RT_init(id, raw) ==
    LET train == Map(raw.train, [i \in 1..Len(raw.train) |-> RT_label_to_sentiment(raw.train[i])])
        test == Map(raw.test, [i \in 1..Len(raw.test) |-> RT_label_to_sentiment(raw.test[i])])
    IN  [cls |-> "RottenTomatoesDataLoader", dataset_name |-> "rotten_tomatoes", id |-> id,
         train |-> Map(train, [i \in 1..Len(train) |-> RT_prompt(train[i])]),
         test |-> Map(test, [i \in 1..Len(test) |-> RT_eval_prompt(test[i])])]

RT_load_test_reference(self) == [exc |-> "none", value |-> Column(self.test, "sentiment")]

\* idxs in ascending order
Sorted(idxs) ==
    [j \in 1..Len(idxs) |->
        CHOOSE v \in {idxs[i] : i \in 1..Len(idxs)} :
            Cardinality({i \in 1..Len(idxs) : idxs[i] < v}) = j - 1]

\* RT_incontext_prompt selecting the sampled rows in ascending index order
RT_incontext_prompt_sorted(self, num_examples, seed) ==
    IF num_examples = 0 THEN Out(<<>>, <<>>)
    ELSE LET rng == choice(Len(self.train), num_examples, seed)
         IN  IF rng.exc # "none" THEN [exc |-> rng.exc]
             ELSE LET examples == Select(self.train, Sorted(rng.idxs), "prompt")
                  IN  Out(<<RT_PROMPT_PREFIX>> \o Join("\n", examples) \o <<"\n">>,
                          <<Draw(seed, Len(self.train), num_examples, rng.idxs)>>)

RT_incontext_prompt(self, num_examples, seed) ==
    IF num_examples = 0 THEN Out(<<>>, <<>>)
    ELSE LET rng == choice(Len(self.train), num_examples, seed)
         IN  IF rng.exc # "none" THEN [exc |-> rng.exc]
             ELSE LET examples == Select(self.train, rng.idxs, "prompt")
                  IN  Out(<<RT_PROMPT_PREFIX>> \o Join("\n", examples) \o <<"\n">>,
                          <<Draw(seed, Len(self.train), num_examples, rng.idxs)>>)

\* "command" is the first literal only: the two literals on the following
\* source lines are statements of their own
RT_turns(ex) ==
    LET command == <<RT_I1>>
        parts == Split(ex, RT_SEP)
    IN  <<User(command \o parts[1]), Assistant(parts[2])>>

RT_incontext_prompt_iterative(self, num_examples, seed) ==
    IF num_examples = 0 THEN Out(<<>>, <<>>)
    ELSE LET rng == choice(Len(self.train), num_examples, seed)
         IN  IF rng.exc # "none" THEN [exc |-> rng.exc]
             ELSE LET examples == Select(self.train, rng.idxs, "prompt")
                      pairs == [j \in 1..Len(examples) |-> RT_turns(examples[j])]
                  IN  Out([t \in 1..(2 * Len(examples)) |-> pairs[(t + 1) \div 2][2 - (t % 2)]],
                          <<Draw(seed, Len(self.train), num_examples, rng.idxs)>>)

RT_eval_prompt_gen(self) == Column(self.test, "eval_prompt")

(***************************************************************************)
(* GigawordDataLoader                                                      *)
(***************************************************************************)
SUM_PROMPT_PREFIX == "Please read the following pairs of texts and summaries:\n"

SUM_I == "Please summarize the following article.\n"

SUM_SEP == "\nsummary: "

Giga_prompt(example) ==
    [prompt |-> <<"article: ">> \o example.document \o <<SUM_SEP>> \o example.summary]

Giga_eval_prompt(example) ==
    [eval_prompt |-> <<SUM_I>> \o example.document]

Giga_init(id, raw) ==
    [cls |-> "GigawordDataLoader", dataset_name |-> "gigaword", id |-> id,
     train |-> Map(raw.train, [i \in 1..Len(raw.train) |-> Giga_prompt(raw.train[i])]),
     test |-> Map(raw.test, [i \in 1..Len(raw.test) |-> Giga_eval_prompt(raw.test[i])])]

Giga_load_test_reference(self) == [exc |-> "none", value |-> Column(self.test, "summary")]

\* Giga_incontext_prompt without the early return for num_examples = 0
Giga_incontext_prompt_no_return(self, num_examples, seed) ==
    LET rng == choice(Len(self.train), num_examples, seed)
    IN  IF rng.exc # "none" THEN [exc |-> rng.exc]
        ELSE LET examples == Select(self.train, rng.idxs, "prompt")
             IN  Out(<<SUM_PROMPT_PREFIX>> \o Join("\n", examples) \o <<"\n">>,
                     IF num_examples = 0 THEN <<>>
                     ELSE <<Draw(seed, Len(self.train), num_examples, rng.idxs)>>)

Giga_incontext_prompt(self, num_examples, seed) ==
    IF num_examples = 0 THEN Out(<<>>, <<>>)
    ELSE LET rng == choice(Len(self.train), num_examples, seed)
         IN  IF rng.exc # "none" THEN [exc |-> rng.exc]
             ELSE LET examples == Select(self.train, rng.idxs, "prompt")
                  IN  Out(<<SUM_PROMPT_PREFIX>> \o Join("\n", examples) \o <<"\n">>,
                          <<Draw(seed, Len(self.train), num_examples, rng.idxs)>>)

Giga_turns(ex) ==
    LET command == <<SUM_I>>
        parts == Split(ex, SUM_SEP)
    IN  <<User(command \o parts[1]), Assistant(parts[2])>>

\* Giga_incontext_prompt_iterative opening the turns with the header
Giga_incontext_prompt_iterative_header(self, num_examples, seed) ==
    IF num_examples = 0 THEN Out(<<>>, <<>>)
    ELSE LET rng == choice(Len(self.train), num_examples, seed)
         IN  IF rng.exc # "none" THEN [exc |-> rng.exc]
             ELSE LET examples == Select(self.train, rng.idxs, "prompt")
                      pairs == [j \in 1..Len(examples) |-> Giga_turns(examples[j])]
                  IN  Out(<<User(<<SUM_PROMPT_PREFIX>>)>>
                          \o [t \in 1..(2 * Len(examples)) |-> pairs[(t + 1) \div 2][2 - (t % 2)]],
                          <<Draw(seed, Len(self.train), num_examples, rng.idxs)>>)

Giga_incontext_prompt_iterative(self, num_examples, seed) ==
    IF num_examples = 0 THEN Out(<<>>, <<>>)
    ELSE LET rng == choice(Len(self.train), num_examples, seed)
         IN  IF rng.exc # "none" THEN [exc |-> rng.exc]
             ELSE LET examples == Select(self.train, rng.idxs, "prompt")
                      pairs == [j \in 1..Len(examples) |-> Giga_turns(examples[j])]
                  IN  Out([t \in 1..(2 * Len(examples)) |-> pairs[(t + 1) \div 2][2 - (t % 2)]],
                          <<Draw(seed, Len(self.train), num_examples, rng.idxs)>>)

Giga_eval_prompt_gen(self) == Column(self.test, "eval_prompt")

(***************************************************************************)
(* DailymailDataLoader                                                     *)
(***************************************************************************)
DM_prompt(example) ==
    [prompt |-> <<"article: ">> \o example.article \o <<SUM_SEP>> \o example.highlights]

DM_eval_prompt(example) ==
    [eval_prompt |-> <<SUM_I>> \o example.article]

DM_init(id, raw) ==
    [cls |-> "DailymailDataLoader", dataset_name |-> "cnn_dailymail", id |-> id,
     train |-> Map(raw.train, [i \in 1..Len(raw.train) |-> DM_prompt(raw.train[i])]),
     test |-> Map(raw.test, [i \in 1..Len(raw.test) |-> DM_eval_prompt(raw.test[i])])]

DM_load_test_reference(self) == [exc |-> "none", value |-> Column(self.test, "highlights")]

DM_incontext_prompt(self, num_examples, seed) ==
    IF num_examples = 0 THEN Out(<<>>, <<>>)
    ELSE LET rng == choice(Len(self.train), num_examples, seed)
         IN  IF rng.exc # "none" THEN [exc |-> rng.exc]
             ELSE LET examples == Select(self.train, rng.idxs, "prompt")
                  IN  Out(<<SUM_PROMPT_PREFIX>> \o Join("\n", examples) \o <<"\n">>,
                          <<Draw(seed, Len(self.train), num_examples, rng.idxs)>>)

DM_turns(ex) ==
    LET command == <<SUM_I>>
        parts == Split(ex, SUM_SEP)
    IN  <<User(command \o parts[1]), Assistant(parts[2])>>

\* DM_incontext_prompt_iterative seeding the generator with a fixed seed
DM_incontext_prompt_iterative_fixed_seed(self, num_examples, seed) ==
    IF num_examples = 0 THEN Out(<<>>, <<>>)
    ELSE LET rng == choice(Len(self.train), num_examples, 0)
         IN  IF rng.exc # "none" THEN [exc |-> rng.exc]
             ELSE LET examples == Select(self.train, rng.idxs, "prompt")
                      pairs == [j \in 1..Len(examples) |-> DM_turns(examples[j])]
                  IN  Out([t \in 1..(2 * Len(examples)) |-> pairs[(t + 1) \div 2][2 - (t % 2)]],
                          <<Draw(0, Len(self.train), num_examples, rng.idxs)>>)

DM_incontext_prompt_iterative(self, num_examples, seed) ==
    IF num_examples = 0 THEN Out(<<>>, <<>>)
    ELSE LET rng == choice(Len(self.train), num_examples, seed)
         IN  IF rng.exc # "none" THEN [exc |-> rng.exc]
             ELSE LET examples == Select(self.train, rng.idxs, "prompt")
                      pairs == [j \in 1..Len(examples) |-> DM_turns(examples[j])]
                  IN  Out([t \in 1..(2 * Len(examples)) |-> pairs[(t + 1) \div 2][2 - (t % 2)]],
                          <<Draw(seed, Len(self.train), num_examples, rng.idxs)>>)

DM_eval_prompt_gen(self) == Column(self.test, "eval_prompt")

(***************************************************************************)
(* WikicatDataLoader                                                       *)
(***************************************************************************)
Wiki_prompt(example) ==
    [prompt |-> <<"article: ">> \o Join(" ", example.paragraphs) \o <<SUM_SEP>>
                \o Join(" ", example.summary.text)]

Wiki_eval_prompt(example) ==
    [eval_prompt |-> <<SUM_I>> \o Join(" ", example.paragraphs)]

Wiki_init(id, raw) ==
    [cls |-> "WikicatDataLoader", dataset_name |-> "GEM/wiki_cat_sum", id |-> id,
     train |-> Map(raw.train, [i \in 1..Len(raw.train) |-> Wiki_prompt(raw.train[i])]),
     test |-> Map(raw.test, [i \in 1..Len(raw.test) |-> Wiki_eval_prompt(raw.test[i])])]

Wiki_load_test_reference(self) == [exc |-> "none", value |-> Column(self.test, "summary")]

Wiki_incontext_prompt(self, num_examples, seed) ==
    IF num_examples = 0 THEN Out(<<>>, <<>>)
    ELSE LET rng == choice(Len(self.train), num_examples, seed)
         IN  IF rng.exc # "none" THEN [exc |-> rng.exc]
             ELSE LET examples == Select(self.train, rng.idxs, "prompt")
                  IN  Out(<<SUM_PROMPT_PREFIX>> \o Join("\n", examples) \o <<"\n">>,
                          <<Draw(seed, Len(self.train), num_examples, rng.idxs)>>)

Wiki_turns(ex) ==
    LET command == <<SUM_I>>
        parts == Split(ex, SUM_SEP)
    IN  <<User(command \o parts[1]), Assistant(parts[2])>>

Wiki_incontext_prompt_iterative(self, num_examples, seed) ==
    IF num_examples = 0 THEN Out(<<>>, <<>>)
    ELSE LET rng == choice(Len(self.train), num_examples, seed)
         IN  IF rng.exc # "none" THEN [exc |-> rng.exc]
             ELSE LET examples == Select(self.train, rng.idxs, "prompt")
                      pairs == [j \in 1..Len(examples) |-> Wiki_turns(examples[j])]
                  IN  Out([t \in 1..(2 * Len(examples)) |-> pairs[(t + 1) \div 2][2 - (t % 2)]],
                          <<Draw(seed, Len(self.train), num_examples, rng.idxs)>>)

Wiki_eval_prompt_gen(self) == Column(self.test, "eval_prompt")

(***************************************************************************)
(* TweetQADataLoader                                                       *)
(***************************************************************************)
TQA_PROMPT_PREFIX == "Please read the following triplet of contexts, questions and answers and summaries:\n"

TQA_I == "Read the given tweet and answer the corresponding question.\n"

TQA_SEP == "\nanswer: "

TQA_prompt(example) ==
    [prompt |-> <<"tweet: ">> \o example.Tweet \o <<"\nquestion: ">> \o example.Question
                \o <<TQA_SEP>> \o example.Answer[1]]

TQA_eval_prompt(example) ==
    [eval_prompt |-> <<TQA_I, "tweet: ">> \o example.Tweet \o <<"\nquestion: ">> \o example.Question]

TQA_init(id, raw) ==
    [cls |-> "TweetQADataLoader", dataset_name |-> "tweet_qa", id |-> id,
     train |-> Map(raw.train, [i \in 1..Len(raw.train) |-> TQA_prompt(raw.train[i])]),
     test |-> Map(raw.test, [i \in 1..Len(raw.test) |-> TQA_eval_prompt(raw.test[i])])]

\* self.test["summary"]: a column lookup, KeyError when the table has no
\* such column
TQA_load_test_reference(self) ==
    IF \A i \in 1..Len(self.test) : "summary" \in DOMAIN self.test[i]
    THEN [exc |-> "none", value |-> Column(self.test, "summary")]
    ELSE [exc |-> "KeyError"]

TQA_incontext_prompt(self, num_examples, seed) ==
    IF num_examples = 0 THEN Out(<<>>, <<>>)
    ELSE LET rng == choice(Len(self.train), num_examples, seed)
         IN  IF rng.exc # "none" THEN [exc |-> rng.exc]
             ELSE LET examples == Select(self.train, rng.idxs, "prompt")
                  IN  Out(<<TQA_PROMPT_PREFIX>> \o Join("\n", examples) \o <<"\n">>,
                          <<Draw(seed, Len(self.train), num_examples, rng.idxs)>>)

TQA_turns(ex) ==
    LET command == <<TQA_I>>
        parts == Split(ex, TQA_SEP)
    IN  <<User(command \o parts[1]), Assistant(parts[2])>>

TQA_incontext_prompt_iterative(self, num_examples, seed) ==
    IF num_examples = 0 THEN Out(<<>>, <<>>)
    ELSE LET rng == choice(Len(self.train), num_examples, seed)
         IN  IF rng.exc # "none" THEN [exc |-> rng.exc]
             ELSE LET examples == Select(self.train, rng.idxs, "prompt")
                      pairs == [j \in 1..Len(examples) |-> TQA_turns(examples[j])]
                  IN  Out([t \in 1..(2 * Len(examples)) |-> pairs[(t + 1) \div 2][2 - (t % 2)]],
                          <<Draw(seed, Len(self.train), num_examples, rng.idxs)>>)

TQA_eval_prompt_gen(self) == Column(self.test, "eval_prompt")

(***************************************************************************)
(* Dynamic dispatch on the adapter's class                                 *)
(***************************************************************************)
incontext_prompt(self, num_examples, seed) ==
    CASE self.cls = "RottenTomatoesDataLoader" -> RT_incontext_prompt(self, num_examples, seed)
      [] self.cls = "GigawordDataLoader" -> Giga_incontext_prompt(self, num_examples, seed)
      [] self.cls = "DailymailDataLoader" -> DM_incontext_prompt(self, num_examples, seed)
      [] self.cls = "WikicatDataLoader" -> Wiki_incontext_prompt(self, num_examples, seed)
      [] self.cls = "TweetQADataLoader" -> TQA_incontext_prompt(self, num_examples, seed)

incontext_prompt_iterative(self, num_examples, seed) ==
    CASE self.cls = "RottenTomatoesDataLoader" -> RT_incontext_prompt_iterative(self, num_examples, seed)
      [] self.cls = "GigawordDataLoader" -> Giga_incontext_prompt_iterative(self, num_examples, seed)
      [] self.cls = "DailymailDataLoader" -> DM_incontext_prompt_iterative(self, num_examples, seed)
      [] self.cls = "WikicatDataLoader" -> Wiki_incontext_prompt_iterative(self, num_examples, seed)
      [] self.cls = "TweetQADataLoader" -> TQA_incontext_prompt_iterative(self, num_examples, seed)

eval_prompt(self) ==
    CASE self.cls = "RottenTomatoesDataLoader" -> RT_eval_prompt_gen(self)
      [] self.cls = "GigawordDataLoader" -> Giga_eval_prompt_gen(self)
      [] self.cls = "DailymailDataLoader" -> DM_eval_prompt_gen(self)
      [] self.cls = "WikicatDataLoader" -> Wiki_eval_prompt_gen(self)
      [] self.cls = "TweetQADataLoader" -> TQA_eval_prompt_gen(self)

load_test_reference(self) ==
    CASE self.cls = "RottenTomatoesDataLoader" -> RT_load_test_reference(self)
      [] self.cls = "GigawordDataLoader" -> Giga_load_test_reference(self)
      [] self.cls = "DailymailDataLoader" -> DM_load_test_reference(self)
      [] self.cls = "WikicatDataLoader" -> Wiki_load_test_reference(self)
      [] self.cls = "TweetQADataLoader" -> TQA_load_test_reference(self)

(***************************************************************************)
(* The dataset provider (load_dataset): per dataset, a train and a test    *)
(* table with the dataset's documented columns.  The tables are slices of  *)
(* a small sample of rows; the sample has rows whose input or target text  *)
(* holds the adapter's own separator.                                      *)
(***************************************************************************)
TrainRows(name) ==
    CASE name = "rotten_tomatoes" ->
           << [text |-> <<"a">>, label |-> 1],
              [text |-> <<"b", RT_SEP, "c">>, label |-> 0],
              [text |-> <<"d">>, label |-> 0] >>
      [] name = "gigaword" ->
           << [document |-> <<"a">>, summary |-> <<"s">>],
              [document |-> <<"b", SUM_SEP, "c">>, summary |-> <<"t">>],
              [document |-> <<"d">>, summary |-> <<"u", SUM_SEP, "v">>] >>
      [] name = "dailymail" ->
           << [article |-> <<"a">>, highlights |-> <<"s">>, id |-> <<"1">>],
              [article |-> <<"b", SUM_SEP, "c">>, highlights |-> <<"t">>, id |-> <<"2">>],
              [article |-> <<"d">>, highlights |-> <<"u", SUM_SEP, "v">>, id |-> <<"3">>] >>
      [] name = "wikicat" ->
           << [paragraphs |-> << <<"a">>, <<"b">> >>, summary |-> [text |-> << <<"s">> >>]],
              [paragraphs |-> << <<"c", SUM_SEP>> >>, summary |-> [text |-> << <<"t">>, <<"u">> >>]],
              [paragraphs |-> << <<"d">> >>, summary |-> [text |-> << <<"v", SUM_SEP, "w">> >>]] >>
      [] name = "tweetqa" ->
           << [Tweet |-> <<"a">>, Question |-> <<"q">>, Answer |-> << <<"s">> >>],
              [Tweet |-> <<"b", TQA_SEP, "c">>, Question |-> <<"r">>, Answer |-> << <<"t">>, <<"u">> >>],
              [Tweet |-> <<"d">>, Question |-> <<"p">>, Answer |-> << <<"v", TQA_SEP, "w">> >>] >>

TestRows(name) ==
    CASE name = "rotten_tomatoes" ->
           << [text |-> <<"e">>, label |-> 0], [text |-> <<"f">>, label |-> 1],
              [text |-> <<"g">>, label |-> 1] >>
      [] name = "gigaword" ->
           << [document |-> <<"e">>, summary |-> <<"x">>],
              [document |-> <<"f">>, summary |-> <<"y">>],
              [document |-> <<"g">>, summary |-> <<"z">>] >>
      [] name = "dailymail" ->
           << [article |-> <<"e">>, highlights |-> <<"x">>, id |-> <<"4">>],
              [article |-> <<"f">>, highlights |-> <<"y">>, id |-> <<"5">>],
              [article |-> <<"g">>, highlights |-> <<"z">>, id |-> <<"6">>] >>
      [] name = "wikicat" ->
           << [paragraphs |-> << <<"e">> >>, summary |-> [text |-> << <<"x">> >>]],
              [paragraphs |-> << <<"f">>, <<"g">> >>, summary |-> [text |-> << <<"y">>, <<"z">> >>]],
              [paragraphs |-> << <<"h">> >>, summary |-> [text |-> << <<"w">> >>]] >>
      [] name = "tweetqa" ->
           << [Tweet |-> <<"e">>, Question |-> <<"q">>, Answer |-> <<>>],
              [Tweet |-> <<"f">>, Question |-> <<"r">>, Answer |-> <<>>],
              [Tweet |-> <<"g">>, Question |-> <<"p">>, Answer |-> <<>>] >>

Window(rows, o, n) == SubSeq(rows, o, o + n - 1)

\* the non-empty slices of at most maxLen rows
Windows(rows, maxLen) ==
    {Window(rows, w[1], w[2]) :
        w \in {v \in (1..Len(rows)) \X (1..maxLen) : v[1] + v[2] - 1 <= Len(rows)}}

Hub(name) ==
    {[train |-> tr, test |-> te] : tr \in Windows(TrainRows(name), MaxTrain),
                                   te \in Windows(TestRows(name), MaxEval)}

\* the names a caller may pass: the five the loader knows, and one it does not
DatasetNames == {"gigaword", "dailymail", "rotten_tomatoes", "wikicat", "tweetqa", "imdb"}

EvalNames == {"gigaword", "dailymail", "rotten_tomatoes"}

IncontextNames == {"gigaword", "dailymail", "wikicat", "rotten_tomatoes", "tweetqa"}

NewAdapter(name, id, raw) ==
    CASE name = "gigaword" -> Giga_init(id, raw)
      [] name = "dailymail" -> DM_init(id, raw)
      [] name = "wikicat" -> Wiki_init(id, raw)
      [] name = "rotten_tomatoes" -> RT_init(id, raw)
      [] name = "tweetqa" -> TQA_init(id, raw)

\* the split that an adapter's role never reads is held to one table
HubEval(name) == {h \in Hub(name) : h.train = Window(TrainRows(name), 1, 1)}

HubIncontext(name) == {h \in Hub(name) : h.test = Window(TestRows(name), 1, 1)}

\* the orders of the indices below n
PermsOf(n) == {p \in [1..n -> 0..(n - 1)] : \A i, j \in 1..n : i # j => p[i] # p[j]}

Rotate(p, s) == [i \in 1..Len(p) |-> p[((i - 1 + s) % Len(p)) + 1]]

\* the generator's stream for every seed the loader can pass, one per
\* evaluation position: the order of each seed ranges over all orders, the
\* orders of two seeds differ by a rotation
Streams(is, es) ==
    IF is = NoAttr \/ es = NoAttr THEN {<<>>}
    ELSE {[seed \in 0..(Len(es.test) - 1) |-> Rotate(p, seed)] : p \in PermsOf(Len(is.train))}

(***************************************************************************)
(* PromptLoader                                                            *)
(***************************************************************************)
\* the first position whose in-context prefix raised, 0 if none did
FirstRaise(outs) ==
    IF \E i \in 1..Len(outs) : outs[i].exc # "none"
    THEN CHOOSE i \in 1..Len(outs) : outs[i].exc # "none" /\ \A j \in 1..(i - 1) : outs[j].exc = "none"
    ELSE 0

load_prompt_value(num_examples) ==
    IF eval_set = NoAttr THEN [exc |-> "AttributeError"]
    ELSE LET evals == eval_prompt(eval_set)
         IN  IF incontext_set = NoAttr /\ evals # <<>> THEN [exc |-> "AttributeError"]
             ELSE LET outs == [idx \in 1..Len(evals) |-> incontext_prompt(incontext_set, num_examples, idx - 1)]
                      bad == FirstRaise(outs)
                  IN  IF bad # 0 THEN [exc |-> outs[bad].exc]
                      ELSE Out([idx \in 1..Len(evals) |-> outs[idx].value \o evals[idx]],
                               [idx \in 1..Len(evals) |-> outs[idx].draws])

load_prompt_iterative_value(num_examples) ==
    IF eval_set = NoAttr THEN [exc |-> "AttributeError"]
    ELSE LET evals == eval_prompt(eval_set)
         IN  IF incontext_set = NoAttr /\ evals # <<>> THEN [exc |-> "AttributeError"]
             ELSE LET outs == [idx \in 1..Len(evals) |->
                                  incontext_prompt_iterative(incontext_set, num_examples, idx - 1)]
                      bad == FirstRaise(outs)
                  IN  IF bad # 0 THEN [exc |-> outs[bad].exc]
                      ELSE Out([idx \in 1..Len(evals) |-> outs[idx].value \o <<User(evals[idx])>>],
                               [idx \in 1..Len(evals) |-> outs[idx].draws])

load_testdata_value ==
    IF eval_set = NoAttr THEN [exc |-> "AttributeError"]
    ELSE load_test_reference(eval_set)

Init ==
    /\ pc = "new"
    /\ incontext_set = NoAttr
    /\ eval_set = NoAttr
    /\ constructed = <<>>
    /\ pcg = <<>>
    /\ flat = NoCall
    /\ turns = NoCall
    /\ refs = NoCall
    /\ args = NoCall
    /\ first = NoCall
    /\ heap = <<>>
    /\ source = <<>>
    /\ tret = NoCall
    /\ sret = NoCall

\* PromptLoader(incontext, eval)
PromptLoader_init(incontext, eval) ==
    /\ pc = "new"
    /\ \E rawE \in (IF eval \notin EvalNames THEN {<<>>}
                    ELSE IF incontext = eval THEN Hub(eval) ELSE HubEval(eval)) :
         LET es == IF eval \in EvalNames THEN NewAdapter(eval, 1, rawE) ELSE NoAttr
             made == IF eval \in EvalNames THEN <<es.cls>> ELSE <<>>
         IN  /\ eval_set' = es
             /\ IF incontext = eval
                THEN IF es = NoAttr
                     THEN \* self.eval_set was never assigned: AttributeError
                          /\ pc' = "failed"
                          /\ incontext_set' = NoAttr
                          /\ constructed' = made
                          /\ pcg' = pcg
                     ELSE /\ pc' = "ready"
                          /\ incontext_set' = es
                          /\ constructed' = made
                          /\ pcg' \in Streams(es, es)
                ELSE IF incontext \in IncontextNames
                     THEN \E rawI \in HubIncontext(incontext) :
                            LET is == NewAdapter(incontext, Len(made) + 1, rawI)
                            IN  /\ pc' = "ready"
                                /\ incontext_set' = is
                                /\ constructed' = Append(made, is.cls)
                                /\ pcg' \in Streams(is, es)
                     ELSE /\ pc' = "ready"
                          /\ incontext_set' = NoAttr
                          /\ constructed' = made
                          /\ pcg' = pcg
    /\ args' = [called |-> TRUE, incontext |-> incontext, eval |-> eval,
                exc |-> IF pc' = "failed" THEN "AttributeError" ELSE "none"]
    \* what each load_prompt(k) returns when it is the first call on the loader
    /\ first' = [called |-> TRUE, incontext_set |-> incontext_set', eval_set |-> eval_set',
                 load_prompt |-> [k \in KRange |-> IF pc' = "ready" THEN load_prompt_value(k)' ELSE NoCall]]
    /\ UNCHANGED <<flat, turns, refs>>
    /\ UNCHANGED tvars

Done(op, k, r) ==
    IF r.exc = "none" THEN [called |-> TRUE, op |-> op, k |-> k, exc |-> "none", value |-> r.value]
    ELSE Raise(op, k, r.exc)

DoneDraws(op, k, r) ==
    IF r.exc = "none" THEN Return(op, k, r) ELSE Raise(op, k, r.exc)

load_prompt(num_examples) ==
    /\ pc = "ready"
    /\ flat' = DoneDraws("load_prompt", num_examples, load_prompt_value(num_examples))
    /\ UNCHANGED <<pc, incontext_set, eval_set, constructed, pcg, turns, refs, args, first>>
    /\ UNCHANGED tvars

\* load_prompt_iterative reordering the training pool in place
load_prompt_iterative_inplace(num_examples) ==
    /\ pc = "ready"
    /\ turns' = DoneDraws("load_prompt_iterative", num_examples, load_prompt_iterative_value(num_examples))
    /\ incontext_set' =
         IF incontext_set = NoAttr THEN incontext_set
         ELSE [incontext_set EXCEPT !.train =
                  [i \in 1..Len(@) |-> @[Len(@) + 1 - i]]]
    /\ UNCHANGED <<pc, eval_set, constructed, pcg, flat, refs, args, first>>
    /\ UNCHANGED tvars

load_prompt_iterative(num_examples) ==
    /\ pc = "ready"
    /\ turns' = DoneDraws("load_prompt_iterative", num_examples, load_prompt_iterative_value(num_examples))
    /\ UNCHANGED <<pc, incontext_set, eval_set, constructed, pcg, flat, refs, args, first>>
    /\ UNCHANGED tvars

load_testdata ==
    /\ pc = "ready"
    /\ refs' = Done("load_testdata", 0, load_testdata_value)
    /\ UNCHANGED <<pc, incontext_set, eval_set, constructed, pcg, flat, turns, args, first>>
    /\ UNCHANGED tvars

\* a caller reading the references of the in-context adapter it was handed
incontext_load_test_reference ==
    /\ pc = "ready"
    /\ incontext_set # NoAttr
    /\ refs' = Done("load_test_reference", 0, load_test_reference(incontext_set))
    /\ UNCHANGED <<pc, incontext_set, eval_set, constructed, pcg, flat, turns, args, first>>
    /\ UNCHANGED tvars

Next ==
    \/ \E incontext \in DatasetNames, eval \in DatasetNames : PromptLoader_init(incontext, eval)
    \/ \E k \in KRange : load_prompt(k)
    \/ \E k \in KRange : load_prompt_iterative(k)
    \/ load_testdata
    \/ incontext_load_test_reference

Spec == Init /\ [][Next]_vars

(***************************************************************************)
(* The record transforms of the module and _load_rotten_tomatoes.          *)
(*                                                                         *)
(* A record is a Python dict: an object of the heap, named by its index,   *)
(* so that a change in place and a copy can be told apart.  A dict is a    *)
(* function from its keys to values; a value carries its Python type.      *)
(***************************************************************************)
MaxRows == 2

MaxHeap == 3

MaxLabel == 2

PyInt(n) == [t |-> "int", i |-> n, s |-> <<>>]

PyStr(x) == [t |-> "str", i |-> 0, s |-> x]

\* dict.pop(k) and d[k] = v, on the value of a dict
Pop(d, k) == [x \in DOMAIN d \ {k} |-> d[x]]

Put(d, k, v) == (k :> v) @@ d

\* dict.get(k), None for a key the dict does not have
None == [t |-> "NoneType", i |-> 0, s |-> <<>>]

Get(d, k) == IF k \in DOMAIN d THEN d[k] ELSE None

Raised(hp, e) == [exc |-> e, heap |-> hp]

Returned(hp, id) == [exc |-> "none", heap |-> hp, ret |-> id]

\* change_key(ex, old_key, new_key): the copy is a new object
change_key(hp, ex, old_key, new_key) ==
    LET copy == hp[ex]
    IN  IF old_key \notin DOMAIN copy THEN Raised(hp, "KeyError")
        ELSE Returned(Append(hp, Put(Pop(copy, old_key), new_key, copy[old_key])), Len(hp) + 1)

\* mapping[key] of a dict whose keys are integers
HasKey(mapping, v) == v.t = "int" /\ v.i \in DOMAIN mapping

\* content_map(ex, target_key, mapping): assigns into ex itself and returns it
content_map(hp, ex, target_key, mapping) ==
    IF target_key \notin DOMAIN hp[ex] THEN Raised(hp, "KeyError")
    ELSE IF ~HasKey(mapping, hp[ex][target_key]) THEN Raised(hp, "KeyError")
    ELSE Returned([hp EXCEPT ![ex] = Put(@, target_key, mapping[@[target_key].i])], ex)

\* _multi_key_to_text(ex, key1, key2): pop(key1) + " " is evaluated before
\* pop(key2)
multi_key_to_text(hp, ex, key1, key2) ==
    LET copy == hp[ex]
    IN  IF key1 \notin DOMAIN copy THEN Raised(hp, "KeyError")
        ELSE IF copy[key1].t # "str" THEN Raised(hp, "TypeError")
        ELSE IF key2 \notin DOMAIN Pop(copy, key1) THEN Raised(hp, "KeyError")
        ELSE IF copy[key2].t # "str" THEN Raised(hp, "TypeError")
        ELSE Returned(Append(hp, Put(Pop(Pop(copy, key1), key2), "text",
                                     PyStr(copy[key1].s \o <<" ">> \o copy[key2].s))),
                      Len(hp) + 1)

invert_labels(hp, ex) ==
    LET copy == hp[ex]
    IN  IF "label" \notin DOMAIN copy THEN Raised(hp, "KeyError")
        ELSE IF copy["label"].t # "int" THEN Raised(hp, "TypeError")
        ELSE Returned(Append(hp, Put(copy, "label", PyInt(1 - copy["label"].i))), Len(hp) + 1)

\* the default map_dict of _map_labels
MAP_DICT == (-1 :> PyInt(0)) @@ (1 :> PyInt(1))

map_labels(hp, ex, map_dict) ==
    LET copy == hp[ex]
    IN  IF "label" \notin DOMAIN copy THEN Raised(hp, "KeyError")
        ELSE IF ~HasKey(map_dict, copy["label"]) THEN Raised(hp, "KeyError")
        ELSE Returned(Append(hp, Put(copy, "label", map_dict[copy["label"].i])), Len(hp) + 1)

\* the mapping of _load_rotten_tomatoes
RT_MAPPING == (0 :> PyStr(<<"negative">>)) @@ (1 :> PyStr(<<"positive">>))

\* [change_key(t, old_key, new_key) for t in rows]
RECURSIVE ChangeKeyAll(_, _, _, _)
ChangeKeyAll(hp, rows, old_key, new_key) ==
    IF rows = <<>> THEN Returned(hp, <<>>)
    ELSE LET r == change_key(hp, Head(rows), old_key, new_key)
         IN  IF r.exc # "none" THEN r
             ELSE LET rest == ChangeKeyAll(r.heap, Tail(rows), old_key, new_key)
                  IN  IF rest.exc # "none" THEN rest
                      ELSE Returned(rest.heap, <<r.ret>> \o rest.ret)

\* [content_map(t, target_key, mapping) for t in rows]
RECURSIVE ContentMapAll(_, _, _, _)
ContentMapAll(hp, rows, target_key, mapping) ==
    IF rows = <<>> THEN Returned(hp, <<>>)
    ELSE LET r == content_map(hp, Head(rows), target_key, mapping)
         IN  IF r.exc # "none" THEN r
             ELSE LET rest == ContentMapAll(r.heap, Tail(rows), target_key, mapping)
                  IN  IF rest.exc # "none" THEN rest
                      ELSE Returned(rest.heap, <<r.ret>> \o rest.ret)

\* _load_rotten_tomatoes(lim), for one split: rows[:lim], the two renamings,
\* then the label mapping
load_rotten_tomatoes(hp, rows, lim) ==
    LET train == SubSeq(rows, 1, IF lim < Len(rows) THEN lim ELSE Len(rows))
        r1 == ChangeKeyAll(hp, train, "text", "Review")
    IN  IF r1.exc # "none" THEN r1
        ELSE LET r2 == ChangeKeyAll(r1.heap, r1.ret, "label", "Sentiment")
             IN  IF r2.exc # "none" THEN r2
                 ELSE ContentMapAll(r2.heap, r2.ret, "Sentiment", RT_MAPPING)

\* RottenTomatoesDataLoader._label_to_sentiment on a record: the "sentiment"
\* column of the new row
label_to_sentiment(hp, ex) ==
    IF "label" \notin DOMAIN hp[ex] THEN [exc |-> "KeyError"]
    ELSE IF hp[ex]["label"].t # "int" THEN [exc |-> "none", sentiment |-> <<"negative">>]
    ELSE [exc |-> "none",
          sentiment |-> RT_label_to_sentiment([label |-> hp[ex]["label"].i]).sentiment]

\* the rows a provider can hand out: a review with every label value, and
\* rows of other shapes
SampleRows ==
    [i \in 1..(MaxLabel + 2) |-> [text |-> PyStr(<<"a">>), label |-> PyInt(MaxLabel + 1 - i)]]
    \o << [content |-> PyStr(<<"c">>), label |-> PyInt(1)],
          [text |-> PyStr(<<"d">>)],
          [title |-> PyStr(<<"t">>), body |-> PyStr(<<"b">>), label |-> PyInt(0)] >>

ChangeKeyArgs == {<<"content", "text">>, <<"text", "Review">>, <<"label", "Sentiment">>}

ContentMapArgs == {"Sentiment", "label"}

MultiKeyArgs == {<<"title", "body">>, <<"text", "label">>}

Called(op, ex, r) ==
    [called |-> TRUE, op |-> op, args |-> ex, before |-> heap, exc |-> r.exc,
     ret |-> IF r.exc = "none" THEN r.ret ELSE 0]

InitT ==
    /\ pc = "new"
    /\ incontext_set = NoAttr
    /\ eval_set = NoAttr
    /\ constructed = <<>>
    /\ pcg = <<>>
    /\ flat = NoCall
    /\ turns = NoCall
    /\ refs = NoCall
    /\ args = NoCall
    /\ first = NoCall
    /\ heap \in Windows(SampleRows, MaxRows)
    /\ source = [i \in 1..Len(heap) |-> i]
    /\ tret = NoCall
    /\ sret = NoCall

call_change_key(ex, old_key, new_key) ==
    /\ Len(heap) < MaxHeap
    /\ LET r == change_key(heap, ex, old_key, new_key)
       IN  heap' = r.heap /\ tret' = Called("change_key", {ex}, r)
    /\ UNCHANGED <<source, sret>>
    /\ UNCHANGED lvars

call_content_map(ex, target_key) ==
    /\ LET r == content_map(heap, ex, target_key, RT_MAPPING)
       IN  heap' = r.heap /\ tret' = [key |-> target_key] @@ Called("content_map", {ex}, r)
    /\ UNCHANGED <<source, sret>>
    /\ UNCHANGED lvars

call_multi_key_to_text(ex, key1, key2) ==
    /\ Len(heap) < MaxHeap
    /\ LET r == multi_key_to_text(heap, ex, key1, key2)
       IN  heap' = r.heap /\ tret' = Called("_multi_key_to_text", {ex}, r)
    /\ UNCHANGED <<source, sret>>
    /\ UNCHANGED lvars

call_invert_labels(ex) ==
    /\ Len(heap) < MaxHeap
    /\ LET r == invert_labels(heap, ex)
       IN  heap' = r.heap /\ tret' = Called("_invert_labels", {ex}, r)
    /\ UNCHANGED <<source, sret>>
    /\ UNCHANGED lvars

call_map_labels(ex) ==
    /\ Len(heap) < MaxHeap
    /\ LET r == map_labels(heap, ex, MAP_DICT)
       IN  heap' = r.heap /\ tret' = Called("_map_labels", {ex}, r)
    /\ UNCHANGED <<source, sret>>
    /\ UNCHANGED lvars

call_load_rotten_tomatoes(lim) ==
    /\ Len(heap) = Len(source)
    /\ LET r == load_rotten_tomatoes(heap, source, lim)
       IN  /\ heap' = r.heap
           /\ tret' = [called |-> TRUE, op |-> "_load_rotten_tomatoes",
                       args |-> {source[i] : i \in 1..Len(source)}, before |-> heap,
                       exc |-> r.exc, ret |-> 0]
    /\ UNCHANGED <<source, sret>>
    /\ UNCHANGED lvars

call_label_to_sentiment(ex) ==
    /\ sret' = [called |-> TRUE, label |-> Get(heap[ex], "label")] @@ label_to_sentiment(heap, ex)
    /\ UNCHANGED <<heap, source, tret>>
    /\ UNCHANGED lvars

NextT ==
    \/ \E ex \in 1..Len(heap), a \in ChangeKeyArgs : call_change_key(ex, a[1], a[2])
    \/ \E ex \in 1..Len(heap), k \in ContentMapArgs : call_content_map(ex, k)
    \/ \E ex \in 1..Len(heap), a \in MultiKeyArgs : call_multi_key_to_text(ex, a[1], a[2])
    \/ \E ex \in 1..Len(heap) : call_invert_labels(ex)
    \/ \E ex \in 1..Len(heap) : call_map_labels(ex)
    \/ \E lim \in 0..(MaxRows + 1) : call_load_rotten_tomatoes(lim)
    \/ \E ex \in 1..Len(heap) : call_label_to_sentiment(ex)

SpecT == InitT /\ [][NextT]_vars

(***************************************************************************)
(* Properties                                                              *)
(***************************************************************************)
Ready == pc = "ready" /\ incontext_set # NoAttr /\ eval_set # NoAttr

Ok(r) == r.called /\ r.exc = "none"

Distinct(idxs) == \A i, j \in 1..Len(idxs) : i # j => idxs[i] # idxs[j]

\* the header every flat prompt of the adapter starts with
Header(self) ==
    CASE self.cls = "RottenTomatoesDataLoader" -> RT_PROMPT_PREFIX
      [] self.cls = "TweetQADataLoader" -> TQA_PROMPT_PREFIX
      [] OTHER -> SUM_PROMPT_PREFIX

\* the rendered fragment of training record j (0-based) and the rendered
\* query of evaluation record i (1-based), as the adapter holds them
Fragment(j) == incontext_set.train[j + 1].prompt

Query(i) == eval_set.test[i].eval_prompt

\* the sampler's selection order for a seed: the first k of its stream
Selection(seed, k) == SubSeq(pcg[seed], 1, k)

\* C1: for 0 < k <= |train|, load_prompt(k) succeeds with one string per
\* evaluation record, in pool order, and string i is the header, the
\* fragments of k distinct training records in the sampler's selection order
\* for seed i joined with newlines, a newline, and the query of record i.
C1_FlatPrompt ==
    (Ready /\ flat.called /\ 0 < flat.k /\ flat.k <= Len(incontext_set.train)) =>
        /\ flat.exc = "none"
        /\ Len(flat.value) = Len(eval_set.test)
        /\ \A i \in 1..Len(eval_set.test) :
             LET sel == Selection(i - 1, flat.k)
             IN  /\ Len(sel) = flat.k
                 /\ Distinct(sel)
                 /\ flat.value[i] =
                      <<Header(incontext_set)>>
                      \o Join("\n", [j \in 1..flat.k |-> Fragment(sel[j])])
                      \o <<"\n">> \o Query(i)

\* two examples drawn in descending index order, for two evaluation records
C1_Witness ==
    /\ Ready /\ Ok(flat) /\ flat.k = 2
    /\ Len(flat.value) = 2
    /\ Selection(0, 2) = <<1, 0>>

\* C2: on PromptLoader(d, d), load_prompt(0)[i] is exactly the evaluation
\* query of evaluation record i: no header, no prefix.
C2_ZeroShotIdentity ==
    (pc = "ready" /\ args.incontext = args.eval /\ flat.called /\ flat.k = 0) =>
        /\ flat.exc = "none"
        /\ Len(flat.value) = Len(eval_set.test)
        /\ \A i \in 1..Len(eval_set.test) : flat.value[i] = Query(i)

C2_Witness ==
    /\ pc = "ready" /\ args.incontext = args.eval
    /\ Ok(flat) /\ flat.k = 0
    /\ Len(flat.value) = 2

\* C3: for 0 <= k <= |train|, load_prompt_iterative(k)[i] has 2k+1 turns,
\* user and assistant alternating from user, and the last turn is a user
\* turn holding the query of evaluation record i.
C3_TurnShape ==
    (Ready /\ turns.called /\ turns.k <= Len(incontext_set.train)) =>
        /\ turns.exc = "none"
        /\ Len(turns.value) = Len(eval_set.test)
        /\ \A i \in 1..Len(eval_set.test) :
             LET msgs == turns.value[i]
             IN  /\ Len(msgs) = 2 * turns.k + 1
                 /\ \A t \in 1..Len(msgs) :
                      msgs[t].role = (IF t % 2 = 1 THEN "user" ELSE "assistant")
                 /\ msgs[Len(msgs)] = User(Query(i))

\* two in-context examples, one of them with the separator in its text
C3_Witness ==
    /\ Ready /\ Ok(turns) /\ turns.k = 2
    /\ \E i \in 1..Len(turns.value) : Len(turns.value[i]) = 5
    /\ \E j \in 1..Len(incontext_set.train) :
         Len(Split(incontext_set.train[j].prompt, SUM_SEP)) > 2

C3_WitnessZero ==
    Ready /\ Ok(turns) /\ turns.k = 0 /\ Len(turns.value[1]) = 1

\* the instruction text that opens every evaluation query of the adapter
Instruction(self) ==
    CASE self.cls = "RottenTomatoesDataLoader" -> <<RT_I1, RT_I2, RT_I3>>
      [] self.cls = "TweetQADataLoader" -> <<TQA_I>>
      [] OTHER -> <<SUM_I>>

\* the separator between the input and the target of the adapter's fragments
Separator(self) ==
    CASE self.cls = "RottenTomatoesDataLoader" -> RT_SEP
      [] self.cls = "TweetQADataLoader" -> TQA_SEP
      [] OTHER -> SUM_SEP

\* the indices drawn for evaluation position i by a call with k > 0
Drawn(r, i) == r.draws[i][1].idxs

InputPart(self, content) ==
    LET n == IF self.cls = "RottenTomatoesDataLoader" THEN 1 ELSE Len(Instruction(self))
    IN  SubSeq(content, n + 1, Len(content))

\* C5: for k > 0, at every position and for every sampled example, the user
\* turn's input part, the separator and the assistant turn's content, in
\* that order, are the fragment the flat prompt holds for that example.
C5_Reconstruct ==
    (Ready /\ Ok(flat) /\ Ok(turns) /\ flat.k = turns.k /\ flat.k > 0) =>
        \A i \in 1..Len(turns.value) : \A j \in 1..turns.k :
            Fragment(Drawn(flat, i)[j]) =
                InputPart(incontext_set, turns.value[i][2 * j - 1].content)
                \o <<Separator(incontext_set)>>
                \o turns.value[i][2 * j].content

\* C6: for the same k, load_prompt and load_prompt_iterative draw the same
\* indices at every evaluation position: the seed is the position, the
\* population is the training pool and the sample size is k.
C6_SameDraws ==
    (Ready /\ Ok(flat) /\ Ok(turns) /\ flat.k = turns.k) =>
        /\ flat.draws = turns.draws
        /\ flat.k > 0 =>
             \A i \in 1..Len(eval_set.test) :
                 flat.draws[i] = <<Draw(i - 1, Len(incontext_set.train), flat.k,
                                        Selection(i - 1, flat.k))>>

C6_Witness ==
    /\ Ready /\ Ok(flat) /\ Ok(turns)
    /\ flat.k = turns.k /\ flat.k > 0
    /\ Len(eval_set.test) = 2
    /\ Len(incontext_set.train) = 2
    /\ pcg[0] # pcg[1]

\* the adapter a reference call was made on
Referee == IF refs.op = "load_testdata" THEN eval_set ELSE incontext_set

\* the reference is the target the adapter renders in the fragment of the
\* same record (for Wikicat the joined summary text, never the summary
\* record itself)
RefIsTarget(self, ref, row) ==
    CASE self.cls = "RottenTomatoesDataLoader" -> ref = row.sentiment
      [] self.cls = "GigawordDataLoader" -> ref = row.summary
      [] self.cls = "DailymailDataLoader" -> ref = row.highlights
      [] self.cls = "WikicatDataLoader" ->
           IF ref = row.summary THEN FALSE ELSE ref = Join(" ", row.summary.text)
      [] self.cls = "TweetQADataLoader" -> ref = row.Answer[1]

\* C7: load_test_reference of every adapter returns the target field of
\* every evaluation-pool record, in pool order: one reference per record.
C7_References ==
    (pc = "ready" /\ refs.called /\ Referee # NoAttr) =>
        /\ refs.exc = "none"
        /\ Len(refs.value) = Len(Referee.test)
        /\ \A i \in 1..Len(Referee.test) : RefIsTarget(Referee, refs.value[i], Referee.test[i])

\* C8: a name the loader does not know, in either role, makes the
\* constructor raise a configuration error; no loader lacking an adapter is
\* returned.
C8_UnknownNameFails ==
    args.called =>
        /\ (args.incontext \notin IncontextNames \/ args.eval \notin EvalNames) =>
               (pc = "failed" /\ args.exc = "ConfigurationError")
        /\ pc = "ready" => (incontext_set # NoAttr /\ eval_set # NoAttr)

NoShortPrompt(r) ==
    (Ready /\ r.called) =>
        /\ r.k > Len(incontext_set.train) =>
               (r.exc = "ValueError" /\ "value" \notin DOMAIN r)
        /\ (r.exc = "none" /\ r.k > 0) =>
               \A i \in 1..Len(r.value) : Len(Drawn(r, i)) = r.k

\* C9: with k above the training-pool size, load_prompt and
\* load_prompt_iterative raise ValueError and return nothing; no prompt is
\* ever built from fewer than k examples.
C9_NoTruncation == NoShortPrompt(flat) /\ NoShortPrompt(turns)

C9_Witness ==
    /\ Ready /\ Len(eval_set.test) = 2
    /\ flat.called /\ flat.k > Len(incontext_set.train) /\ flat.exc = "ValueError"
    /\ turns.called /\ turns.k > Len(incontext_set.train) /\ turns.exc = "ValueError"

\* C10: whatever calls came before, load_prompt(k) returns what it returns
\* as the first call on the loader, and the pools are the ones the loader
\* was built with.
C10_Determinism ==
    pc = "ready" =>
        /\ incontext_set = first.incontext_set
        /\ eval_set = first.eval_set
        /\ flat.called => flat = DoneDraws("load_prompt", flat.k, first.load_prompt[flat.k])

C10_Witness ==
    /\ Ready /\ Ok(flat) /\ flat.k = 2
    /\ Ok(turns) /\ turns.k = 1
    /\ Ok(refs)
    /\ Selection(0, 2) = <<1, 0>>

\* the names the loader has an adapter for
SupportedNames == IncontextNames \cup EvalNames

\* C11: for supported names, PromptLoader(d, d) succeeds and both roles are
\* the one adapter instance, the only one constructed; with two different
\* names the roles are two distinct adapters.
C11_SharedAdapter ==
    (args.called /\ args.incontext \in SupportedNames /\ args.eval \in SupportedNames) =>
        IF args.incontext = args.eval
        THEN /\ pc = "ready"
             /\ incontext_set # NoAttr
             /\ incontext_set = eval_set
             /\ Len(constructed) = 1
        ELSE /\ pc = "ready"
             /\ incontext_set # NoAttr /\ eval_set # NoAttr
             /\ incontext_set.id # eval_set.id
             /\ Len(constructed) = 2


\* the record transforms, as opposed to the loading chain built from them
Transforms == {"change_key", "content_map", "_multi_key_to_text", "_invert_labels", "_map_labels"}

\* the records passed to the last call are what they were before it
InputUnchanged == \A id \in tret.args : heap[id] = tret.before[id]

\* the last call returned an object that did not exist before it
ReturnsNew == tret.ret \notin DOMAIN tret.before

\* C12: a record transform, and the loading chain of _load_rotten_tomatoes,
\* leave the records passed to them unchanged, whether they return or raise,
\* and a transform that returns, returns a new record.
C12_TransformsPure ==
    tret.called =>
        /\ InputUnchanged
        /\ (tret.op \in Transforms /\ tret.exc = "none") => ReturnsNew

\* the fixed enumeration {0: negative, 1: positive}; no sentiment string
\* for any other label
Enumeration(label) ==
    IF label = 0 THEN <<"negative">> ELSE IF label = 1 THEN <<"positive">> ELSE <<>>

\* the sentiment string the adapter's _label_to_sentiment gave, if any
AdapterSentiment == IF sret.exc = "none" THEN sret.sentiment ELSE <<>>

\* the sentiment string content_map stored under its target key, if any
MappedSentiment == IF tret.exc = "none" THEN heap[tret.ret][tret.key].s ELSE <<>>

\* the integer label the last content_map call with the sentiment mapping
\* was given
MappedLabel == LET ex == CHOOSE id \in tret.args : TRUE IN Get(tret.before[ex], tret.key)

\* C13: on both code paths an integer label gives the outcome of the fixed
\* enumeration: 'negative' for 0, 'positive' for 1, and no sentiment string
\* for any other label.
C13_SameEnumeration ==
    /\ (sret.called /\ sret.label.t = "int") =>
           AdapterSentiment = Enumeration(sret.label.i)
    /\ (tret.called /\ tret.op = "content_map" /\ MappedLabel.t = "int") =>
           MappedSentiment = Enumeration(MappedLabel.i)

====
